---- MODULE Spec2Model ----
(***************************************************************************)
(* Daily prayer tracker: the prayer log store, the streak calculator and   *)
(* the read models built on them.                                          *)
(*                                                                         *)
(* The repository holds two implementations of logging and streak          *)
(* bookkeeping: PrayerService (persistence collaborator blink.db with a    *)
(* localStorage fallback decided per call) and the usePrayerData hook      *)
(* (React state mirrored into localStorage).  They use disjoint storage    *)
(* keys, so a behaviour exercises one of them, chosen in Init.             *)
(*                                                                         *)
(* Time is kept at calendar-day granularity.  The one place where the code *)
(* does arithmetic on instants, Date.now() - 24h in updateStreak, is kept  *)
(* exact by the variable dst, which says whether the current instant lies  *)
(* in the first hour after a 23-hour day or the last hour of a 25-hour day.*)
(* The authentication collaborator (blink.auth.me) always answers, except  *)
(* in SpecStats, where the read models meet its rejection.                 *)
(*                                                                         *)
(* The reminder due-check with the notification hook (useNotifications)    *)
(* and the prayer timer (PrayerTimer inside PrayerDashboard) share no      *)
(* state with the streak bookkeeping; each has a specification of its own, *)
(* SpecNotify and SpecTimer, in which the variables of the others rest.    *)
(* So have the reminder settings (SpecSettings), the statistics of the     *)
(* service with the dashboard's streak numbers (SpecStats) and the monthly *)
(* statistics of the hook (SpecMonthly).                                   *)
(***************************************************************************)
EXTENDS Integers, FiniteSets, Sequences, TLC

\* ------------------------------------------------------------------ bounds
\* the calendar days 1..MaxDay; the session starts on day MaxDay - 1 and may
\* pass one midnight, the days before it belong to earlier sessions
MaxDay == 4
\* prayers logged during the session
MaxLogs == 6
\* times the first prayer of a day is logged on that day
MaxDup == 2
\* collaborator calls that fail during the session
MaxFail == 1

\* local midnights that pass while the notification hook is mounted
MaxNights == 2
\* edits of the reminder list while the notification hook is mounted
MaxEdits == 1

\* quarters of a minute the timer's clock runs
MaxClock == 3

\* prayers timed during the session
MaxTimings == 2

\* the largest number of minutes a caller hands to endPrayerTimer
MaxMinutes == 2

\* edits of the reminders on the settings page
MaxSettingsEdits == 3

\* the day on which the statistics are asked for; the days before it are past
MaxStatsDay == 8

\* logs in the prayerLogs array when the monthly statistics are asked for
MaxMonthlyLogs == 3

\* --------------------------------------------------------------- constants
DAILY_PRAYERS == <<"Fajr", "Dhuhr", "Asr", "Maghrib", "Isha">>

PrayerNames == {DAILY_PRAYERS[i] : i \in DOMAIN DAILY_PRAYERS}

\* last_prayer_date?: string is optional; 0 stands for the unset field
NoDate == 0

VARIABLES
    impl,         \* "service" (PrayerService) or "hook" (usePrayerData);
                  \* "notify" (useNotifications), "reminders"
                  \* (PrayerService.checkForDueReminders) under SpecNotify;
                  \* "timer" (PrayerTimer) or "timerService"
                  \* (PrayerService.startPrayerTimer/endPrayerTimer) under SpecTimer;
                  \* "settings" (ReminderSettings on usePrayerData) or
                  \* "reminderService" (PrayerService.updateReminder) under
                  \* SpecSettings; "stats" under SpecStats; "monthly" under
                  \* SpecMonthly
    today,        \* current local calendar day
    dst,          \* "normal", "afterSpringForward" or "endOfFallBack"
    dstShift,     \* the session has met its daylight-saving shift
    dbPrayers,    \* blink.db.prayers rows of the user
    lsPrayers,    \* localStorage prayers_<userId>
    dbStreaks,    \* blink.db.prayer_streaks rows of the user (0 or 1)
    lsStreak,     \* localStorage streak_<userId> (<<>> when absent)
    fails,        \* collaborator calls that failed so far
    fallbackUsed, \* some persistence call was served by localStorage
    mixed,        \* a call was served by blink.db after one served by localStorage
    prayerLogs,   \* usePrayerData: prayerLogs state = localStorage prayer_logs_<userId>
    streak,       \* usePrayerData: streak state = localStorage prayer_streak_<userId>
    sawOwnLog,    \* the streak update of the last logPrayer had the new log
                  \* in the prayers of today it examined
    minute,       \* local time of day in minutes, truncated to the minute
    weekday,      \* local day of the week, "Mon" .. "Sun"
    dayLen,       \* hours of the current local day: 24, or 23 / 25 on the
                  \* day of a daylight-saving shift
    resetDue,     \* <<day, minute>>: local time at which the timer that
                  \* clears notifiedToday is due
    reminders,    \* the reminder list: hook reminders (useNotifications) or
                  \* PrayerReminder rows (checkForDueReminders)
    notifiedToday,\* useNotifications: notifiedToday.current
    permission,   \* "unsupported" ('Notification' not in window) or
                  \* Notification.permission: "default", "granted", "denied"
    edits,        \* edits of the reminder list so far
    shownToday,   \* <<key, channel>> shown so far on this calendar day
    shownTwice,   \* some <<key, channel>> was shown twice on one calendar day
    everThrew,    \* a notification channel has thrown in some check so far
    lastCheck,    \* what the last due-check examined and produced
    now,          \* Date.now(), in quarters of a minute
    showTimer,    \* PrayerDashboard: the timer dialog is open
    selectedPrayer, \* PrayerDashboard: the prayer being timed, "" when none
    isRunning,    \* PrayerTimer state
    isPaused,     \* PrayerTimer state
    startTime,    \* PrayerTimer state, NoTime for null
    pending,      \* calls of handleTimerComplete past logPrayer and not returned
    timerOp,      \* of the last handler or service call of the timer: the
                  \* calls of onComplete since the last Start, and whether
                  \* the call rejected
    storedReminders, \* localStorage: prayer_reminders_<userId> of the hook,
                  \* reminders_<userId> of the service
    statsInput,   \* the log list handed to the statistics of the hook
    lastResult    \* what the last reminder edit, statistics call or
                  \* dashboard load returned or showed

clockVars == <<today, dst, dstShift>>
serviceVars == <<dbPrayers, lsPrayers, dbStreaks, lsStreak, fails, fallbackUsed, mixed>>
hookVars == <<prayerLogs, streak>>
notifyVars == <<minute, weekday, dayLen, resetDue, reminders, notifiedToday,
                permission, edits, shownToday, shownTwice, everThrew, lastCheck>>
timerVars == <<now, showTimer, selectedPrayer, isRunning, isPaused, startTime,
               pending, timerOp>>
moreVars == <<storedReminders, statsInput, lastResult>>
vars == <<impl, today, dst, dstShift, dbPrayers, lsPrayers, dbStreaks, lsStreak,
          fails, fallbackUsed, mixed, prayerLogs, streak, sawOwnLog,
          minute, weekday, dayLen, resetDue, reminders, notifiedToday,
          permission, edits, shownToday, shownTwice, everThrew, lastCheck,
          now, showTimer, selectedPrayer, isRunning, isPaused, startTime,
          pending, timerOp, storedReminders, statsInput, lastResult>>

\* no reminder stored, no statistics asked for
MoreRests ==
    /\ storedReminders = <<>>
    /\ statsInput = <<>>
    /\ lastResult = [op |-> "none"]

\* startTime === null, end_time and duration_minutes undefined
NoTime == 0 - 1

\* the timer dialog closed and the timer in its initial state
TimerRests ==
    /\ now = 0
    /\ showTimer = FALSE
    /\ selectedPrayer = ""
    /\ isRunning = FALSE
    /\ isPaused = FALSE
    /\ startTime = NoTime
    /\ pending = 0
    /\ timerOp = [onComplete |-> 0, rejected |-> FALSE]

\* the variables of the notification hook and of the due-check at rest
NotifyRests ==
    /\ minute = 0
    /\ weekday = "Mon"
    /\ dayLen = 24
    /\ resetDue = <<0, 0>>
    /\ reminders = <<>>
    /\ notifiedToday = {}
    /\ permission = "default"
    /\ edits = 0
    /\ shownToday = {}
    /\ shownTwice = FALSE
    /\ everThrew = FALSE
    /\ lastCheck = [op |-> "none"]

\* ------------------------------------------------------------------- clock
\* format(new Date(Date.now() - 24 * 60 * 60 * 1000), 'yyyy-MM-dd'):
\* the local calendar day of the instant 24 hours ago
yesterday ==
    IF dst = "afterSpringForward" THEN today - 2
    ELSE IF dst = "endOfFallBack" THEN today
    ELSE today - 1

\* the first day of the session; the days before it are past
FirstDay == MaxDay - 1

\* midnight passes; the day that ended may have been a 23-hour day.
\* Daylight-saving shifts are months apart: a session meets at most one.
NextDay ==
    /\ today < MaxDay
    /\ today' = today + 1
    /\ \/ dst' = "normal" /\ dstShift' = dstShift
       \/ /\ dst = "normal"
          /\ ~dstShift
          /\ dst' = "afterSpringForward"
          /\ dstShift' = TRUE
    /\ UNCHANGED <<impl, moreVars, timerVars, notifyVars, serviceVars, hookVars, sawOwnLog>>

\* the first local hour of the day after a 23-hour day is over
LeaveFirstHour ==
    /\ dst = "afterSpringForward"
    /\ dst' = "normal"
    /\ UNCHANGED <<impl, moreVars, timerVars, notifyVars, today, dstShift, serviceVars, hookVars, sawOwnLog>>

\* the last local hour of a 25-hour day begins
EnterLastHour ==
    /\ dst = "normal"
    /\ ~dstShift
    /\ dst' = "endOfFallBack"
    /\ dstShift' = TRUE
    /\ UNCHANGED <<impl, moreVars, timerVars, notifyVars, today, serviceVars, hookVars, sawOwnLog>>

\* ---------------------------------------------------------- PrayerService
Max(a, b) == IF a > b THEN a ELSE b

DefaultStreak ==
    [current_streak |-> 0, longest_streak |-> 0,
     last_prayer_date |-> NoDate, total_prayers |-> 0]

\* calls served by the fallback store
NumFallback(calls) == Cardinality({i \in DOMAIN calls : calls[i] = "ls"})

\* a call served by the collaborator although an earlier one was served by
\* the fallback
Mixes(used, calls) ==
    \E i \in DOMAIN calls :
        /\ calls[i] = "db"
        /\ (used \/ \E j \in 1..(i - 1) : calls[j] = "ls")

getOrCreateStreak(dbS, lsS, okList, okCreate) ==
    IF okList /\ Len(dbS) > 0
    THEN [streak |-> dbS[1], dbS |-> dbS, lsS |-> lsS, calls |-> <<"db">>]
    ELSE IF okList /\ okCreate
    THEN [streak |-> DefaultStreak, dbS |-> <<DefaultStreak>>, lsS |-> lsS,
          calls |-> <<"db", "db">>]
    ELSE LET pre == IF okList THEN <<"db">> ELSE <<>> IN
         IF Len(lsS) > 0
         THEN [streak |-> lsS[1], dbS |-> dbS, lsS |-> lsS, calls |-> pre \o <<"ls">>]
         ELSE [streak |-> DefaultStreak, dbS |-> dbS, lsS |-> <<DefaultStreak>>,
               calls |-> pre \o <<"ls">>]

getTodaysPrayers(db, ls, ok) ==
    IF ok THEN {p \in db : p.logged_at = today}
    ELSE {p \in ls : p.logged_at = today}

\* slice(0, limit) of a newest-first list: the oldest rows are dropped
RECURSIVE NewestFirst(_, _)
NewestFirst(rows, limit) ==
    IF Cardinality(rows) <= limit THEN rows
    ELSE LET oldest == CHOOSE p \in rows : \A q \in rows : p.logged_at <= q.logged_at
         IN NewestFirst(rows \ {oldest}, limit)

getPrayerHistory(db, ls, ok, limit) ==
    IF ok THEN NewestFirst(db, limit) ELSE NewestFirst(ls, limit)

getTotalPrayerCount(db, ls, ok) ==
    IF ok THEN Cardinality(db) ELSE Cardinality(ls)

\* the day counted as complete one prayer early
completedToday_AtLeastFour(uniquePrayersToday) == Cardinality(uniquePrayersToday) >= 4

completedToday(uniquePrayersToday) == Cardinality(uniquePrayersToday) = 5

\* td, yd: format(new Date()) and format(new Date(Date.now() - 24h))
newCurrentStreak(s, td, yd) ==
    IF s.last_prayer_date # NoDate
    THEN IF s.last_prayer_date = yd THEN s.current_streak + 1
         ELSE IF s.last_prayer_date # td THEN 1
         ELSE s.current_streak
    ELSE 1

\* the longest streak left as it was read
newLongestStreak_NoMax(s, td, yd) == s.longest_streak

newLongestStreak(s, td, yd) == Max(s.longest_streak, newCurrentStreak(s, td, yd))

updatedStreak(s, totalPrayers, td, yd) ==
    [current_streak |-> newCurrentStreak(s, td, yd),
     longest_streak |-> newLongestStreak(s, td, yd),
     last_prayer_date |-> td,
     total_prayers |-> totalPrayers]

\* av: which collaborator calls of this invocation succeed
Calls == {"create", "streakList", "streakCreate", "todayList", "countList", "streakUpdate"}

\* the availability patterns with at most k failing calls
Availability ==
    [k \in 0..MaxFail |->
        {av \in [Calls -> BOOLEAN] : Cardinality({c \in Calls : ~av[c]}) <= k}]

updateStreak(db, ls, dbS, lsS, av) ==
    LET g == getOrCreateStreak(dbS, lsS, av["streakList"], av["streakCreate"])
        todaysPrayers == getTodaysPrayers(db, ls, av["todayList"])
        totalPrayers == getTotalPrayerCount(db, ls, av["countList"])
        uniquePrayersToday == {p.prayer_name : p \in todaysPrayers}
        reads == g.calls
                   \o <<IF av["todayList"] THEN "db" ELSE "ls">>
                   \o <<IF av["countList"] THEN "db" ELSE "ls">>
        made == {"streakList", "todayList", "countList"}
                   \cup (IF av["streakList"] /\ Len(dbS) = 0 THEN {"streakCreate"} ELSE {})
        upd == updatedStreak(g.streak, totalPrayers, today, yesterday)
    IN  IF completedToday(uniquePrayersToday)
        THEN [dbS |-> IF av["streakUpdate"] /\ Len(g.dbS) > 0 THEN <<upd>> ELSE g.dbS,
              lsS |-> IF av["streakUpdate"] THEN g.lsS ELSE <<upd>>,
              calls |-> reads \o <<IF av["streakUpdate"] THEN "db" ELSE "ls">>,
              made |-> made \cup {"streakUpdate"},
              todaysPrayers |-> todaysPrayers]
        ELSE [dbS |-> g.dbS, lsS |-> g.lsS, calls |-> reads, made |-> made,
              todaysPrayers |-> todaysPrayers]

AllPrayers == dbPrayers \cup lsPrayers

\* the id of a new row: unique among the user's rows
NewId(name) ==
    Cardinality({p \in AllPrayers : p.prayer_name = name /\ p.logged_at = today}) + 1

logPrayer(prayerName, av) ==
    LET prayer == [prayer_name |-> prayerName, logged_at |-> today, id |-> NewId(prayerName)]
        db == IF av["create"] THEN dbPrayers \cup {prayer} ELSE dbPrayers
        ls == IF av["create"] THEN lsPrayers ELSE lsPrayers \cup {prayer}
        u == updateStreak(db, ls, dbStreaks, lsStreak, av)
    IN  [db |-> db, ls |-> ls, dbS |-> u.dbS, lsS |-> u.lsS,
         calls |-> <<IF av["create"] THEN "db" ELSE "ls">> \o u.calls,
         made |-> {"create"} \cup u.made,
         result |-> prayer, todaysPrayers |-> u.todaysPrayers]

\* the user logs a day's prayers in the order of the day and may log the
\* first of them again; the code never looks at which name it is, only at
\* how many distinct names the day has
NextPrayer(namesToday) ==
    {DAILY_PRAYERS[i] : i \in {j \in DOMAIN DAILY_PRAYERS :
        /\ DAILY_PRAYERS[j] \notin namesToday
        /\ \A k \in 1..(j - 1) : DAILY_PRAYERS[k] \in namesToday}}

\* the prayer that is logged a second time
Repeated(namesToday) == namesToday \cap {DAILY_PRAYERS[1]}

SessionPrayers == {p \in AllPrayers : p.logged_at >= FirstDay}

NamesToday == {p.prayer_name : p \in {q \in AllPrayers : q.logged_at = today}}

LogPrayer(prayerName) ==
    /\ impl = "service"
    /\ Cardinality(SessionPrayers) < MaxLogs
    /\ prayerName \in NextPrayer(NamesToday) \cup Repeated(NamesToday)
    /\ NewId(prayerName) <= MaxDup
    /\ \E av \in Availability[MaxFail - fails] :
        LET r == logPrayer(prayerName, av) IN
        /\ \A c \in Calls \ r.made : av[c]
        /\ dbPrayers' = r.db
        /\ lsPrayers' = r.ls
        /\ dbStreaks' = r.dbS
        /\ lsStreak' = r.lsS
        /\ fails' = fails + NumFallback(r.calls)
        /\ fallbackUsed' = (fallbackUsed \/ NumFallback(r.calls) > 0)
        /\ mixed' = (mixed \/ Mixes(fallbackUsed, r.calls))
        /\ sawOwnLog' = (r.result \in r.todaysPrayers)
    /\ UNCHANGED <<impl, moreVars, timerVars, notifyVars, clockVars, hookVars>>

\* PrayerService.getStreak: reads the record, creating it on first read
GetStreak(okList, okCreate) ==
    /\ impl = "service"
    /\ LET g == getOrCreateStreak(dbStreaks, lsStreak, okList, okCreate) IN
        /\ (okList /\ Len(dbStreaks) = 0) \/ okCreate
        /\ fails + NumFallback(g.calls) <= MaxFail
        /\ dbStreaks' = g.dbS
        /\ lsStreak' = g.lsS
        /\ fails' = fails + NumFallback(g.calls)
        /\ fallbackUsed' = (fallbackUsed \/ NumFallback(g.calls) > 0)
        /\ mixed' = (mixed \/ Mixes(fallbackUsed, g.calls))
    /\ UNCHANGED <<impl, moreVars, timerVars, notifyVars, clockVars, dbPrayers, lsPrayers, hookVars, sawOwnLog>>

\* ----------------------------------------------------------- usePrayerData
HookNewId(name) ==
    Cardinality({l \in prayerLogs : l.prayerName = name /\ l.loggedAt = today}) + 1

\* updateStreak(prayerName) of the hook, run on the prayerLogs of the render
\* that created the handler (the new log is not in it yet)
hookTodayPrayers(prayerName) ==
    {l.prayerName : l \in {x \in prayerLogs : x.loggedAt = today}} \cup {prayerName}

hookNewStreak(s, td) ==
    [currentStreak |-> s.currentStreak + 1,
     longestStreak |-> Max(s.longestStreak, s.currentStreak + 1),
     lastPrayerDate |-> td]

HookSessionLogs == {l \in prayerLogs : l.loggedAt >= FirstDay}

HookNamesToday == {l.prayerName : l \in {x \in prayerLogs : x.loggedAt = today}}

HookLogPrayer(prayerName) ==
    /\ impl = "hook"
    /\ Cardinality(HookSessionLogs) < MaxLogs
    /\ prayerName \in NextPrayer(HookNamesToday) \cup Repeated(HookNamesToday)
    /\ HookNewId(prayerName) <= MaxDup
    /\ LET newLog == [prayerName |-> prayerName, loggedAt |-> today,
                      id |-> HookNewId(prayerName)]
           todayPrayers == hookTodayPrayers(prayerName)
       IN /\ prayerLogs' = {newLog} \cup prayerLogs
          /\ streak' = IF Cardinality(todayPrayers) = 5
                       THEN hookNewStreak(streak, today) ELSE streak
          /\ sawOwnLog' = (newLog.prayerName \in todayPrayers)
    /\ UNCHANGED <<impl, moreVars, timerVars, notifyVars, clockVars, serviceVars>>

\* ------------------------------------------------- what earlier sessions left
\* P: the past days on which the user logged all five prayers (once each);
\* on the other past days the user logged nothing
PastDays == 1..(FirstDay - 1)

PastPrayers(P) ==
    {[prayer_name |-> n, logged_at |-> d, id |-> 1] : n \in PrayerNames, d \in P}

\* the streak row after the days 1..d, the collaborator having been available
RECURSIVE PastStreak(_, _)
PastStreak(P, d) ==
    IF d = 0 THEN DefaultStreak
    ELSE IF d \in P
         THEN updatedStreak(PastStreak(P, d - 1),
                            5 * Cardinality({x \in P : x <= d}), d, d - 1)
         ELSE PastStreak(P, d - 1)

HookPastLogs(P) ==
    {[prayerName |-> n, loggedAt |-> d, id |-> 1] : n \in PrayerNames, d \in P}

HookDefaultStreak == [currentStreak |-> 0, longestStreak |-> 0, lastPrayerDate |-> NoDate]

RECURSIVE HookPastStreak(_, _)
HookPastStreak(P, d) ==
    IF d = 0 THEN HookDefaultStreak
    ELSE IF d \in P
         THEN hookNewStreak(HookPastStreak(P, d - 1), d)
         ELSE HookPastStreak(P, d - 1)

\* ------------------------------------------------------------ specification
Init ==
    /\ impl \in {"service", "hook"}
    /\ today = FirstDay
    /\ \/ dst = "normal" /\ dstShift = FALSE
       \/ dst = "afterSpringForward" /\ dstShift = TRUE
    /\ \E P \in SUBSET PastDays :
        /\ dbPrayers = IF impl = "service" THEN PastPrayers(P) ELSE {}
        /\ dbStreaks = IF impl = "service" /\ P # {}
                       THEN <<PastStreak(P, FirstDay - 1)>> ELSE <<>>
        /\ prayerLogs = IF impl = "hook" THEN HookPastLogs(P) ELSE {}
        /\ streak = IF impl = "hook" THEN HookPastStreak(P, FirstDay - 1)
                    ELSE HookDefaultStreak
    /\ lsPrayers = {}
    /\ lsStreak = <<>>
    /\ fails = 0
    /\ fallbackUsed = FALSE
    /\ mixed = FALSE
    /\ sawOwnLog = TRUE
    /\ NotifyRests
    /\ TimerRests
    /\ MoreRests

Next ==
    \/ NextDay
    \/ LeaveFirstHour
    \/ EnterLastHour
    \/ \E n \in PrayerNames : LogPrayer(n)
    \/ \E a \in BOOLEAN, b \in BOOLEAN : GetStreak(a, b)
    \/ \E n \in PrayerNames : HookLogPrayer(n)

Spec == Init /\ [][Next]_vars

\* the variables of the streak bookkeeping at rest
StreakRests ==
    /\ dst = "normal"
    /\ dbPrayers = {}
    /\ lsPrayers = {}
    /\ dbStreaks = <<>>
    /\ lsStreak = <<>>
    /\ fails = 0
    /\ fallbackUsed = FALSE
    /\ mixed = FALSE
    /\ prayerLogs = {}
    /\ streak = HookDefaultStreak
    /\ sawOwnLog = TRUE

\* ------------------------------------------------------ reminder due-check
Digits == <<"0", "1", "2", "3", "4", "5", "6", "7", "8", "9">>

\* n.toString().padStart(2, '0')
padStart2(n) == Digits[(n \div 10) + 1] \o Digits[(n % 10) + 1]

\* `${hours padded}:${minutes padded}` of the hook and format(now, 'HH:mm')
\* of the service, for the local time m minutes after midnight
HHmm(m) == padStart2(m \div 60) \o ":" \o padStart2(m % 60)

\* the times of day at which the clock is looked at, in minutes:
\* 00:00, 00:30, 01:00, 05:29, 05:30, 05:31, 23:00
Instants == <<0, 30, 60, 329, 330, 331, 1380>>

\* the times a reminder is set to
ReminderTimes == {"00:00", "00:30", "05:30"}

Weekdays == <<"Sun", "Mon", "Tue", "Wed", "Thu", "Fri", "Sat">>

\* Date.getDay(): Sunday is 0
getDay(wd) == (CHOOSE i \in DOMAIN Weekdays : Weekdays[i] = wd) - 1

Tomorrow(wd) == Weekdays[((getDay(wd) + 1) % 7) + 1]

\* now.getDay() || 7
currentDay(wd) == IF getDay(wd) = 0 THEN 7 ELSE getDay(wd)

\* Number("0"), Number("1")
Number(str) == IF str = "0" THEN 0 ELSE 1

\* parseInt of one part of days_of_week.split(',')
parseInt(str) == CHOOSE n \in 0..9 : Digits[n + 1] = str

checkForDueReminders(list, wd, m) ==
    LET currentTime == HHmm(m)
        due(reminder) ==
            IF Number(reminder.is_enabled) = 0 THEN FALSE
            ELSE LET daysOfWeek == {parseInt(reminder.days_of_week[i]) :
                                        i \in DOMAIN reminder.days_of_week}
                 IN  IF currentDay(wd) \notin daysOfWeek THEN FALSE
                     ELSE reminder.reminder_time = currentTime
    IN  SelectSeq(list, due)

\* ------------------------------------------------------- useNotifications
\* showNotification: the system channel first, then the toast; neither call
\* is guarded, so an exception of one ends the function
showNotification(perm, sysThrows, toastThrows) ==
    LET sysTried == perm = "granted"
        sysThrew == sysTried /\ sysThrows
    IN  [system |-> sysTried /\ ~sysThrows,
         toast |-> ~sysThrew /\ ~toastThrows,
         threw |-> sysThrew \/ toastThrows]

\* `${reminder.prayerName}_${currentTime}`
reminderKey(reminder, currentTime) == reminder.prayerName \o "_" \o currentTime

\* reminders.forEach of checkReminders from index i on; an exception of
\* showNotification leaves the loop before the key is recorded
RECURSIVE checkReminders(_, _, _, _, _, _, _)
checkReminders(list, i, currentTime, notified, perm, sysThrows, toastThrows) ==
    IF i > Len(list)
    THEN [notified |-> notified, shown |-> <<>>, threw |-> FALSE]
    ELSE LET reminder == list[i]
             key == reminderKey(reminder, currentTime)
         IN  IF ~reminder.isEnabled
             THEN checkReminders(list, i + 1, currentTime, notified, perm,
                                 sysThrows, toastThrows)
             ELSE IF reminder.reminderTime = currentTime /\ key \notin notified
             THEN LET n == showNotification(perm, sysThrows, toastThrows)
                      one == <<[index |-> i, key |-> key,
                                system |-> n.system, toast |-> n.toast,
                                granted |-> perm = "granted",
                                sysThrows |-> sysThrows,
                                toastThrows |-> toastThrows]>>
                  IN  IF n.threw
                      THEN [notified |-> notified, shown |-> one, threw |-> TRUE]
                      ELSE LET rest == checkReminders(list, i + 1, currentTime,
                                           notified \cup {key}, perm,
                                           sysThrows, toastThrows)
                           IN  [notified |-> rest.notified,
                                shown |-> one \o rest.shown,
                                threw |-> rest.threw]
             ELSE checkReminders(list, i + 1, currentTime, notified, perm,
                                 sysThrows, toastThrows)

\* what a check showed, as <<key, channel>> pairs
Shown(shown) ==
    {<<shown[j].key, "system">> : j \in {k \in DOMAIN shown : shown[k].system}}
        \cup {<<shown[j].key, "toast">> : j \in {k \in DOMAIN shown : shown[k].toast}}

\* a run of checkReminders over the list, by the 60-second poll or by the
\* start of the polling effect
RunCheck(list, sysThrows, toastThrows) ==
    LET c == checkReminders(list, 1, HHmm(minute), notifiedToday, permission,
                            sysThrows, toastThrows)
    IN  /\ notifiedToday' = c.notified
        /\ shownToday' = shownToday \cup Shown(c.shown)
        /\ shownTwice' = (shownTwice \/ Shown(c.shown) \cap shownToday # {})
        /\ everThrew' = (everThrew \/ c.threw)
        /\ lastCheck' = [op |-> "checkReminders", at |-> <<today, minute>>,
                         shown |-> c.shown, threw |-> c.threw]

NotifyCheck(sysThrows, toastThrows) ==
    /\ impl = "notify"
    /\ RunCheck(reminders, sysThrows, toastThrows)
    /\ UNCHANGED <<impl, moreVars, timerVars, clockVars, serviceVars, hookVars, sawOwnLog, minute, weekday,
                   dayLen, resetDue, reminders, permission, edits>>

\* usePrayerData.updateReminder: a new reminder list, on which the polling
\* effect starts again with an immediate check
updateReminder(list, i, updates) ==
    [j \in DOMAIN list |->
        IF j = i THEN [prayerName |-> list[j].prayerName,
                       reminderTime |-> updates.reminderTime,
                       isEnabled |-> updates.isEnabled]
        ELSE list[j]]

NotifyEdit(i, time, enabled, sysThrows, toastThrows) ==
    /\ impl = "notify"
    /\ edits < MaxEdits
    /\ i \in DOMAIN reminders
    /\ <<time, enabled>> # <<reminders[i].reminderTime, reminders[i].isEnabled>>
    /\ edits' = edits + 1
    /\ reminders' = updateReminder(reminders, i,
                                   [reminderTime |-> time, isEnabled |-> enabled])
    /\ RunCheck(reminders', sysThrows, toastThrows)
    /\ UNCHANGED <<impl, moreVars, timerVars, clockVars, serviceVars, hookVars, sawOwnLog, minute, weekday,
                   dayLen, resetDue, permission>>

\* the user answers the permission prompt of Notification.requestPermission()
PermissionAnswer(answer) ==
    /\ impl = "notify"
    /\ permission = "default"
    /\ permission' = answer
    /\ UNCHANGED <<impl, moreVars, timerVars, clockVars, serviceVars, hookVars, sawOwnLog, minute, weekday,
                   dayLen, resetDue, reminders, notifiedToday, edits, shownToday,
                   shownTwice, everThrew, lastCheck>>

\* the local time 24 hours after <<d, m>>, a time at which the clearing timer
\* fired, on a day of len hours (the shift is at 02:00)
after24h(d, m, len) ==
    IF m = 0 /\ len = 25 THEN <<d, 1380>>
    ELSE IF m = 0 /\ len = 23 THEN <<d + 1, 60>>
    ELSE <<d + 1, m>>

\* the setTimeout(msUntilMidnight) callback and, after it, the
\* setInterval(24h) callback: notifiedToday.current.clear()
NotifyReset ==
    /\ impl = "notify"
    /\ resetDue = <<today, minute>>
    /\ notifiedToday' = {}
    /\ resetDue' = after24h(today, minute, dayLen)
    /\ UNCHANGED <<impl, moreVars, timerVars, clockVars, serviceVars, hookVars, sawOwnLog, minute, weekday,
                   dayLen, reminders, permission, edits, shownToday, shownTwice,
                   everThrew, lastCheck>>

\* PrayerService.checkForDueReminders applied to the reminder rows
ServiceCheck ==
    /\ impl = "reminders"
    /\ lastCheck' = [op |-> "checkForDueReminders", at |-> <<today, minute>>,
                     due |-> checkForDueReminders(reminders, weekday, minute)]
    /\ UNCHANGED <<impl, moreVars, timerVars, clockVars, serviceVars, hookVars, sawOwnLog, minute, weekday,
                   dayLen, resetDue, reminders, notifiedToday, permission, edits,
                   shownToday, shownTwice, everThrew>>

\* PrayerService.showNotification: Notification.permission is read without
\* a test for 'Notification' in window
serviceShowNotification(perm) ==
    [system |-> perm = "granted", threw |-> perm = "unsupported"]

ServiceShowNotification ==
    /\ impl = "reminders"
    /\ lastCheck' = [op |-> "showNotification", at |-> <<today, minute>>,
                     shown |-> serviceShowNotification(permission)]
    /\ UNCHANGED <<impl, moreVars, timerVars, clockVars, serviceVars, hookVars, sawOwnLog, minute, weekday,
                   dayLen, resetDue, reminders, notifiedToday, permission, edits,
                   shownToday, shownTwice, everThrew>>

\* the clock reaches the next time of day; a timer that is due fires before
\* the minute is over
NotifyTick ==
    /\ impl \in {"notify", "reminders"}
    /\ resetDue # <<today, minute>>
    /\ \E k \in DOMAIN Instants :
        /\ Instants[k] = minute
        /\ k < Len(Instants)
        /\ minute' = Instants[k + 1]
    /\ UNCHANGED <<impl, moreVars, timerVars, clockVars, serviceVars, hookVars, sawOwnLog, weekday, dayLen,
                   resetDue, reminders, notifiedToday, permission, edits, shownToday,
                   shownTwice, everThrew, lastCheck>>

\* local midnight; the new day is an ordinary one or, once in the time the
\* hook is mounted, the day of a daylight-saving shift
NotifyMidnight(len) ==
    /\ impl \in {"notify", "reminders"}
    /\ resetDue # <<today, minute>>
    /\ minute = Instants[Len(Instants)]
    /\ today <= MaxNights
    /\ len # 24 => (impl = "notify" /\ ~dstShift)
    /\ today' = today + 1
    /\ minute' = 0
    /\ weekday' = Tomorrow(weekday)
    /\ dayLen' = len
    /\ dstShift' = (dstShift \/ len # 24)
    /\ shownToday' = {}
    /\ UNCHANGED <<impl, moreVars, timerVars, dst, serviceVars, hookVars, sawOwnLog, resetDue, reminders,
                   notifiedToday, permission, edits, shownTwice, everThrew,
                   lastCheck>>

\* loadPrayerData of usePrayerData: the default reminders (the first two)
DefaultReminders ==
    <<[prayerName |-> "Fajr", reminderTime |-> "05:30", isEnabled |-> TRUE],
      [prayerName |-> "Dhuhr", reminderTime |-> "12:30", isEnabled |-> TRUE]>>

\* the values of days_of_week, split at the commas
DayLists ==
    {<<"1", "2", "3", "4", "5", "6", "7">>, <<"1", "2", "3", "4", "5">>, <<"7">>}

\* createReminder(prayerName, reminderTime): enabled, on all days
createReminder(prayerName, reminderTime) ==
    [prayer_name |-> prayerName, reminder_time |-> reminderTime,
     is_enabled |-> "1", days_of_week |-> <<"1", "2", "3", "4", "5", "6", "7">>]

\* the hook is mounted on day 1 at 00:00 with the default reminders; its
\* first clearing timer is due at the next local midnight.  The due-check of
\* the service is given a row of any setting and a second row as created.
InitNotify ==
    /\ StreakRests
    /\ TimerRests
    /\ MoreRests
    /\ today = 1
    /\ dstShift = FALSE
    /\ minute = Instants[1]
    /\ dayLen = 24
    /\ notifiedToday = {}
    /\ edits = 0
    /\ shownToday = {}
    /\ shownTwice = FALSE
    /\ everThrew = FALSE
    /\ lastCheck = [op |-> "none"]
    /\ \/ /\ impl = "notify"
          /\ weekday = "Mon"
          /\ resetDue = <<2, 0>>
          /\ reminders = DefaultReminders
          /\ permission \in {"unsupported", "default", "granted", "denied"}
       \/ /\ impl = "reminders"
          /\ weekday \in {Weekdays[i] : i \in DOMAIN Weekdays}
          /\ resetDue = <<0, 0>>
          /\ permission \in {"unsupported", "granted"}
          /\ \E t \in ReminderTimes, e \in {"0", "1"}, d \in DayLists :
                reminders = <<[prayer_name |-> "Fajr", reminder_time |-> t,
                               is_enabled |-> e, days_of_week |-> d],
                              createReminder("Dhuhr", "05:30")>>

NextNotify ==
    \/ \E a \in BOOLEAN, b \in BOOLEAN : NotifyCheck(a, b)
    \/ \E i \in 1..2, t \in ReminderTimes, e \in BOOLEAN, a \in BOOLEAN, b \in BOOLEAN :
            NotifyEdit(i, t, e, a, b)
    \/ \E answer \in {"granted", "denied"} : PermissionAnswer(answer)
    \/ NotifyReset
    \/ ServiceCheck
    \/ ServiceShowNotification
    \/ NotifyTick
    \/ \E len \in {23, 24, 25} : NotifyMidnight(len)

SpecNotify == InitNotify /\ [][NextNotify]_vars

\* ------------------------------------------------------------ PrayerTimer
\* Math.round(ms / (1000 * 60)) of a span given in quarters of a minute
\* (Math.round rounds a half up)
durationMinutes(span) == (span + 2) \div 4

\* the state of the mounted PrayerTimer
timerState == [isRunning |-> isRunning, isPaused |-> isPaused, startTime |-> startTime]

\* isPaused is left as it is
resetTimer_KeepsPaused(st) ==
    [isRunning |-> FALSE, isPaused |-> st.isPaused, startTime |-> NoTime]

resetTimer(st) == [isRunning |-> FALSE, isPaused |-> FALSE, startTime |-> NoTime]

\* a handler gives the next state of the timer and the callbacks it calls:
\* onComplete with <<startTime, endTime, duration>>, onCancel
handleStart(st, t) ==
    [state |-> [isRunning |-> TRUE, isPaused |-> FALSE, startTime |-> t],
     onComplete |-> <<>>, onCancel |-> FALSE]

handlePause(st, t) ==
    [state |-> [st EXCEPT !.isPaused = ~st.isPaused],
     onComplete |-> <<>>, onCancel |-> FALSE]

handleStop(st, t) ==
    [state |-> resetTimer(st),
     onComplete |-> IF st.startTime # NoTime
                    THEN <<[startTime |-> st.startTime, endTime |-> t,
                            duration |-> durationMinutes(t - st.startTime)]>>
                    ELSE <<>>,
     onCancel |-> FALSE]

\* Cancel reports the timing as Complete does
handleCancel_Completes(st, t) == [handleStop(st, t) EXCEPT !.onCancel = TRUE]

handleCancel(st, t) ==
    [state |-> resetTimer(st), onComplete |-> <<>>, onCancel |-> TRUE]

\* PrayerService.logPrayer(prayerName, startTime, endTime): the row of
\* logPrayer with start_time, end_time and duration_minutes
logPrayerTimed(prayerName, start, end, av) ==
    LET plain == [prayer_name |-> prayerName, logged_at |-> today, id |-> NewId(prayerName)]
        prayer == [prayer_name |-> prayerName, logged_at |-> today, id |-> NewId(prayerName),
                   start_time |-> start, end_time |-> end,
                   duration_minutes |-> durationMinutes(end - start)]
        stored(S) == IF plain \in S THEN (S \ {plain}) \cup {prayer} ELSE S
    IN  [logPrayer(prayerName, av) EXCEPT !.db = stored(@), !.ls = stored(@)]

\* the timer dialog closes: PrayerTimer is unmounted and its state is lost
Unmount ==
    /\ isRunning' = FALSE
    /\ isPaused' = FALSE
    /\ startTime' = NoTime

\* a handler of PrayerTimer with the callbacks of PrayerDashboard it calls:
\* handleTimerComplete up to the end of PrayerService.logPrayer, and
\* handleTimerCancel; during a logPrayer blink.db is up or down as a whole
Handle(op, h) ==
    /\ impl = "service"
    /\ showTimer
    /\ IF h.onComplete # <<>>
       THEN /\ Cardinality(SessionPrayers) < MaxTimings
            /\ NewId(selectedPrayer) <= MaxDup
            /\ \E ok \in BOOLEAN :
                LET r == logPrayerTimed(selectedPrayer, h.onComplete[1].startTime,
                                        h.onComplete[1].endTime, [c \in Calls |-> ok]) IN
                /\ dbPrayers' = r.db
                /\ lsPrayers' = r.ls
                /\ dbStreaks' = r.dbS
                /\ lsStreak' = r.lsS
                /\ fails' = fails + NumFallback(r.calls)
                /\ fallbackUsed' = (fallbackUsed \/ NumFallback(r.calls) > 0)
                /\ mixed' = (mixed \/ Mixes(fallbackUsed, r.calls))
                /\ sawOwnLog' = (r.result \in r.todaysPrayers)
            /\ pending' = pending + 1
       ELSE UNCHANGED <<serviceVars, sawOwnLog, pending>>
    /\ IF h.onCancel
       THEN /\ showTimer' = FALSE
            /\ selectedPrayer' = ""
            /\ Unmount
       ELSE /\ isRunning' = h.state.isRunning
            /\ isPaused' = h.state.isPaused
            /\ startTime' = h.state.startTime
            /\ UNCHANGED <<showTimer, selectedPrayer>>
    /\ timerOp' = [onComplete |-> IF op = "handleStart" THEN 0
                                  ELSE timerOp.onComplete + Len(h.onComplete),
                   rejected |-> FALSE]
    /\ UNCHANGED <<impl, moreVars, clockVars, hookVars, notifyVars, now>>

\* PrayerDashboard.startTimedPrayer: the "Time Prayer" button of a prayer
\* not yet completed today
StartTimedPrayer(prayerName) ==
    /\ impl = "service"
    /\ ~showTimer
    /\ prayerName \in NextPrayer(NamesToday)
    /\ selectedPrayer' = prayerName
    /\ showTimer' = TRUE
    /\ UNCHANGED <<impl, moreVars, clockVars, serviceVars, hookVars, sawOwnLog, notifyVars,
                   now, isRunning, isPaused, startTime, pending, timerOp>>

\* the buttons of PrayerTimer: Start and Cancel while not running;
\* Pause / Resume, Complete and Cancel while running
PressStart ==
    /\ ~isRunning
    /\ Handle("handleStart", handleStart(timerState, now))

PressPause ==
    /\ isRunning
    /\ Handle("handlePause", handlePause(timerState, now))

PressComplete ==
    /\ isRunning
    /\ Handle("handleStop", handleStop(timerState, now))

PressCancel == Handle("handleCancel", handleCancel(timerState, now))

\* the dialog is dismissed: onOpenChange = setShowTimer
CloseDialog ==
    /\ impl = "service"
    /\ showTimer
    /\ showTimer' = FALSE
    /\ Unmount
    /\ UNCHANGED <<impl, moreVars, clockVars, serviceVars, hookVars, sawOwnLog, notifyVars,
                   now, selectedPrayer, pending, timerOp>>

\* handleTimerComplete after logPrayer: loadDashboardData, then the dialog
\* is closed; a failure of loadDashboardData leaves it as it is
TimerCompleteReturns(loaded) ==
    /\ impl = "service"
    /\ pending > 0
    /\ pending' = pending - 1
    /\ IF loaded
       THEN /\ showTimer' = FALSE
            /\ selectedPrayer' = ""
            /\ Unmount
       ELSE UNCHANGED <<showTimer, selectedPrayer, isRunning, isPaused, startTime>>
    /\ UNCHANGED <<impl, moreVars, clockVars, serviceVars, hookVars, sawOwnLog, notifyVars,
                   now, timerOp>>

\* a quarter of a minute passes
TimerTick ==
    /\ impl \in {"service", "timerService"}
    /\ now < MaxClock
    /\ now' = now + 1
    /\ UNCHANGED <<impl, moreVars, clockVars, serviceVars, hookVars, sawOwnLog, notifyVars,
                   showTimer, selectedPrayer, isRunning, isPaused, startTime,
                   pending, timerOp>>

\* PrayerService.startPrayerTimer: blink.db.prayers.create with no try / catch
startPrayerTimer(prayerName, ok) ==
    LET prayer == [prayer_name |-> prayerName, logged_at |-> today,
                   id |-> NewId(prayerName), start_time |-> now]
    IN  [db |-> IF ok THEN dbPrayers \cup {prayer} ELSE dbPrayers, rejected |-> ~ok]

\* PrayerService.endPrayerTimer: blink.db.prayers.update with no try / catch;
\* end_time is the time of the call, duration_minutes the caller's number
endPrayerTimer(prayer, minutes, ok) ==
    LET updated == [prayer_name |-> prayer.prayer_name, logged_at |-> prayer.logged_at,
                    id |-> prayer.id, start_time |-> prayer.start_time,
                    end_time |-> now, duration_minutes |-> minutes]
    IN  [db |-> IF ok THEN (dbPrayers \ {prayer}) \cup {updated} ELSE dbPrayers,
         rejected |-> ~ok]

\* the rows of startPrayerTimer that endPrayerTimer has not yet updated
OpenTimings == {p \in dbPrayers : "end_time" \notin DOMAIN p}

StartPrayerTimer(prayerName, ok) ==
    /\ impl = "timerService"
    /\ Cardinality(SessionPrayers) < MaxTimings
    /\ prayerName \in NextPrayer(NamesToday) \cup Repeated(NamesToday)
    /\ NewId(prayerName) <= MaxDup
    /\ ok \/ fails < MaxFail
    /\ LET r == startPrayerTimer(prayerName, ok) IN
        /\ dbPrayers' = r.db
        /\ timerOp' = [onComplete |-> 0, rejected |-> r.rejected]
    /\ fails' = IF ok THEN fails ELSE fails + 1
    /\ UNCHANGED <<impl, moreVars, clockVars, lsPrayers, dbStreaks, lsStreak, fallbackUsed, mixed,
                   hookVars, sawOwnLog, notifyVars, now, showTimer, selectedPrayer,
                   isRunning, isPaused, startTime, pending>>

EndPrayerTimer(prayer, minutes, ok) ==
    /\ impl = "timerService"
    /\ prayer \in OpenTimings
    /\ ok \/ fails < MaxFail
    /\ LET r == endPrayerTimer(prayer, minutes, ok) IN
        /\ dbPrayers' = r.db
        /\ timerOp' = [onComplete |-> 0, rejected |-> r.rejected]
    /\ fails' = IF ok THEN fails ELSE fails + 1
    /\ UNCHANGED <<impl, moreVars, clockVars, lsPrayers, dbStreaks, lsStreak, fallbackUsed, mixed,
                   hookVars, sawOwnLog, notifyVars, now, showTimer, selectedPrayer,
                   isRunning, isPaused, startTime, pending>>

InitTimer ==
    /\ impl = "service"
    /\ today = FirstDay
    /\ dstShift = FALSE
    /\ StreakRests
    /\ NotifyRests
    /\ TimerRests
    /\ MoreRests

NextTimer ==
    \/ \E prayerName \in PrayerNames : StartTimedPrayer(prayerName)
    \/ PressStart
    \/ PressPause
    \/ PressComplete
    \/ PressCancel
    \/ CloseDialog
    \/ \E loaded \in BOOLEAN : TimerCompleteReturns(loaded)
    \/ TimerTick

SpecTimer == InitTimer /\ [][NextTimer]_vars

\* PrayerService.startPrayerTimer and endPrayerTimer called directly
InitTimerService ==
    /\ impl = "timerService"
    /\ today = FirstDay
    /\ dstShift = FALSE
    /\ StreakRests
    /\ NotifyRests
    /\ TimerRests
    /\ MoreRests

NextTimerService ==
    \/ \E prayerName \in PrayerNames, ok \in BOOLEAN : StartPrayerTimer(prayerName, ok)
    \/ \E prayer \in OpenTimings, minutes \in 0..MaxMinutes, ok \in BOOLEAN :
            EndPrayerTimer(prayer, minutes, ok)
    \/ TimerTick

SpecTimerService == InitTimerService /\ [][NextTimerService]_vars

\* ------------------------------------------------------------ dashboard
\* PrayerDashboard.getTodaysProgress over the todaysPrayers it loaded
getTodaysProgress(todaysPrayers) ==
    (Cardinality({p.prayer_name : p \in todaysPrayers}) * 100) \div 5

\* PrayerService.getPrayerHistory(limit = 20)
HistoryLimit == 20

\* ------------------------------------------------------ reminder settings
\* { ...reminder, ...updates }: the fields of updates replace or extend
\* those of the reminder
spread(reminder, updates) ==
    [f \in DOMAIN reminder \cup DOMAIN updates |->
        IF f \in DOMAIN updates THEN updates[f] ELSE reminder[f]]

\* loadPrayerData of usePrayerData: the default reminders, set and stored
\* when localStorage holds no reminder list
defaultReminders ==
    <<[id |-> "1", prayerName |-> "Fajr", reminderTime |-> "05:30", isEnabled |-> TRUE],
      [id |-> "2", prayerName |-> "Dhuhr", reminderTime |-> "12:30", isEnabled |-> TRUE],
      [id |-> "3", prayerName |-> "Asr", reminderTime |-> "15:30", isEnabled |-> TRUE],
      [id |-> "4", prayerName |-> "Maghrib", reminderTime |-> "18:30", isEnabled |-> TRUE],
      [id |-> "5", prayerName |-> "Isha", reminderTime |-> "20:00", isEnabled |-> TRUE]>>

\* ReminderSettings: the default time of each prayer
PRAYER_TIMES ==
    [n \in PrayerNames |->
        CASE n = "Fajr" -> "05:30"
          [] n = "Dhuhr" -> "12:30"
          [] n = "Asr" -> "15:30"
          [] n = "Maghrib" -> "18:30"
          [] n = "Isha" -> "20:00"]

\* the ids a caller passes: those of the default reminders and one that no
\* reminder has
ReminderIds == {"1", "2", "3", "4", "5", "6"}

\* the time the user types into a time field
TypedTime == "00:30"

\* reminders.map replaced by a filter that keeps the reminder of the id
mapReminders_DropsOthers(list, reminderId, updates) ==
    LET hit(r) == r.id = reminderId
    IN  [j \in DOMAIN SelectSeq(list, hit) |->
            spread(SelectSeq(list, hit)[j], updates)]

\* usePrayerData.updateReminder, the list it computes: reminders.map over
\* the reminders of the render the function was created in
mapReminders(list, reminderId, updates) ==
    [j \in DOMAIN list |->
        IF list[j].id = reminderId THEN spread(list[j], updates) ELSE list[j]]

\* usePrayerData.updateReminder(reminderId, updates) on the reminders of
\* the current render: the list goes to the state, then to localStorage,
\* then the success toast is shown; when localStorage throws, the state
\* keeps the list and the error toast is shown
hookUpdateReminder(list, stored, reminderId, updates, storeThrows) ==
    [state |-> mapReminders(list, reminderId, updates),
     stored |-> IF storeThrows THEN stored
                ELSE mapReminders(list, reminderId, updates),
     toast |-> IF storeThrows THEN "error" ELSE "success"]

\* reminders.forEach(reminder => onUpdateReminder(...)) inside one click
\* handler: every call is the function of the same render, so every call
\* maps the same list, and each setReminders and setItem replaces the one
\* before it
RECURSIVE forEachUpdate(_, _, _, _)
forEachUpdate(list, sofar, calls, storeThrows) ==
    IF calls = <<>> THEN sofar
    ELSE forEachUpdate(list,
                       hookUpdateReminder(list, sofar.stored, Head(calls).id,
                                          Head(calls).updates, storeThrows),
                       Tail(calls), storeThrows)

\* the page shows the outcome of a handler
SettingsDone(op, reminderId, r) ==
    /\ reminders' = r.state
    /\ storedReminders' = r.stored
    /\ lastResult' = [op |-> op, id |-> reminderId, outcome |-> r.toast]
    /\ edits' = edits + 1
    /\ fails' = IF r.toast = "error" THEN fails + 1 ELSE fails
    /\ UNCHANGED <<impl, timerVars, clockVars, hookVars, sawOwnLog,
                   dbPrayers, lsPrayers, dbStreaks, lsStreak, fallbackUsed, mixed,
                   minute, weekday, dayLen, resetDue, notifiedToday, permission,
                   shownToday, shownTwice, everThrew, lastCheck,
                   statsInput>>

SettingsReady(storeThrows) ==
    /\ impl = "settings"
    /\ edits < MaxSettingsEdits
    /\ storeThrows => fails < MaxFail

\* ReminderSettings.handleTimeChange(reminderId, newTime)
handleTimeChange(reminderId, newTime, storeThrows) ==
    /\ SettingsReady(storeThrows)
    /\ \E i \in DOMAIN reminders : reminders[i].id = reminderId
    /\ SettingsDone("updateReminder", reminderId,
            hookUpdateReminder(reminders, storedReminders, reminderId,
                               [reminderTime |-> newTime], storeThrows))

\* ReminderSettings.handleToggleReminder(reminderId, enabled): the switch
\* of a reminder hands over the opposite of what it shows
handleToggleReminder(reminderId, enabled, storeThrows) ==
    /\ SettingsReady(storeThrows)
    /\ \E i \in DOMAIN reminders :
            reminders[i].id = reminderId /\ reminders[i].isEnabled # enabled
    /\ SettingsDone("updateReminder", reminderId,
            hookUpdateReminder(reminders, storedReminders, reminderId,
                               [isEnabled |-> enabled], storeThrows))

\* usePrayerData.updateReminder called with an id that no reminder has
UpdateUnknownReminder(reminderId, updates, storeThrows) ==
    /\ SettingsReady(storeThrows)
    /\ \A i \in DOMAIN reminders : reminders[i].id # reminderId
    /\ SettingsDone("updateReminder", reminderId,
            hookUpdateReminder(reminders, storedReminders, reminderId,
                               updates, storeThrows))

\* the calls of a quick action that has run to its end
QuickAction(op, calls, storeThrows) ==
    /\ SettingsReady(storeThrows)
    /\ SettingsDone(op, "",
            forEachUpdate(reminders,
                          [state |-> reminders, stored |-> storedReminders,
                           toast |-> "success"],
                          calls, storeThrows))

\* ReminderSettings, "Enable All"
EnableAll(storeThrows) ==
    QuickAction("enableAll",
                [i \in DOMAIN reminders |->
                    [id |-> reminders[i].id, updates |-> [isEnabled |-> TRUE]]],
                storeThrows)

\* ReminderSettings, "Disable All"
DisableAll(storeThrows) ==
    QuickAction("disableAll",
                [i \in DOMAIN reminders |->
                    [id |-> reminders[i].id, updates |-> [isEnabled |-> FALSE]]],
                storeThrows)

\* ReminderSettings, "Reset Times": every reminder whose prayer has a
\* default time
ResetTimes(storeThrows) ==
    QuickAction("resetTimes",
                [i \in DOMAIN reminders |->
                    [id |-> reminders[i].id,
                     updates |-> [reminderTime |-> PRAYER_TIMES[reminders[i].prayerName]]]],
                storeThrows)

\* PrayerService.updateReminder(reminderId, updates) when blink.db rejects
\* the update: the reminder of that id in localStorage is replaced, and
\* without one the call throws 'Reminder not found'
serviceUpdateReminder(stored, reminderId, updates) ==
    LET index == {i \in DOMAIN stored : stored[i].id = reminderId}
    IN  IF index # {}
        THEN [stored |-> [j \in DOMAIN stored |->
                            IF j = CHOOSE i \in index : \A k \in index : i <= k
                            THEN spread(stored[j], updates) ELSE stored[j]],
              outcome |-> "returned"]
        ELSE [stored |-> stored, outcome |-> "threw"]

ServiceUpdateReminder(reminderId, updates) ==
    /\ impl = "reminderService"
    /\ edits < MaxSettingsEdits
    /\ LET r == serviceUpdateReminder(storedReminders, reminderId, updates)
       IN  /\ storedReminders' = r.stored
           /\ lastResult' = [op |-> "updateReminder", id |-> reminderId,
                             outcome |-> r.outcome]
    /\ edits' = edits + 1
    /\ fallbackUsed' = TRUE
    /\ UNCHANGED <<impl, timerVars, clockVars, hookVars, sawOwnLog,
                   dbPrayers, lsPrayers, dbStreaks, lsStreak, fails, mixed,
                   minute, weekday, dayLen, resetDue, reminders, notifiedToday,
                   permission, shownToday, shownTwice, everThrew, lastCheck,
                   statsInput>>

\* the hook has loaded its data for a user without stored reminders; the
\* service holds two reminders created while blink.db was away
InitSettings ==
    /\ TimerRests
    /\ today = 1
    /\ dstShift = FALSE
    /\ dst = "normal"
    /\ dbPrayers = {}
    /\ lsPrayers = {}
    /\ dbStreaks = <<>>
    /\ lsStreak = <<>>
    /\ fails = 0
    /\ mixed = FALSE
    /\ prayerLogs = {}
    /\ streak = HookDefaultStreak
    /\ sawOwnLog = TRUE
    /\ minute = 0
    /\ weekday = "Mon"
    /\ dayLen = 24
    /\ resetDue = <<0, 0>>
    /\ notifiedToday = {}
    /\ permission = "default"
    /\ edits = 0
    /\ shownToday = {}
    /\ shownTwice = FALSE
    /\ everThrew = FALSE
    /\ lastCheck = [op |-> "none"]
    /\ statsInput = <<>>
    /\ lastResult = [op |-> "none"]
    /\ \/ /\ impl = "settings"
          /\ fallbackUsed = FALSE
          /\ reminders = defaultReminders
          /\ storedReminders = defaultReminders
       \/ /\ impl = "reminderService"
          /\ fallbackUsed = TRUE
          /\ reminders = <<>>
          /\ storedReminders =
                <<[id |-> "1"] @@ createReminder("Fajr", "05:30"),
                  [id |-> "2"] @@ createReminder("Dhuhr", "12:30")>>

NextSettings ==
    \/ \E id \in ReminderIds, b \in BOOLEAN : handleTimeChange(id, TypedTime, b)
    \/ \E id \in ReminderIds, e \in BOOLEAN, b \in BOOLEAN :
            handleToggleReminder(id, e, b)
    \/ \E id \in ReminderIds, e \in BOOLEAN, b \in BOOLEAN :
            UpdateUnknownReminder(id, [isEnabled |-> e], b)
    \/ \E b \in BOOLEAN : EnableAll(b)
    \/ \E b \in BOOLEAN : DisableAll(b)
    \/ \E b \in BOOLEAN : ResetTimes(b)
    \/ \E id \in ReminderIds, t \in {"0", "1"} :
            ServiceUpdateReminder(id, [is_enabled |-> t])

SpecSettings == InitSettings /\ [][NextSettings]_vars

\* ------------------------------------------------------------- statistics
\* Math.round(n / d) for n >= 0 and d > 0: a half is rounded up
Round(n, d) == (2 * n + d) \div (2 * d)

RECURSIVE SumDuration(_)
SumDuration(rows) ==
    IF rows = {} THEN 0
    ELSE LET p == CHOOSE q \in rows : TRUE
         IN  p.duration_minutes + SumDuration(rows \ {p})

\* PrayerService.getPrayerHistoryByDays(days): the rows logged from `days`
\* days ago until now, from blink.db or, when its list fails, from
\* localStorage
getPrayerHistoryByDays(db, ls, ok, days) ==
    {p \in (IF ok THEN db ELSE ls) :
        p.logged_at >= today - days /\ p.logged_at <= today}

\* eachDayOfInterval({ start: startOfWeek(new Date()), end: endOfWeek(new
\* Date()) }): the calendar week of today, Sunday first
daysInWeek == [i \in 1..7 |-> today - getDay(weekday) + (i - 1)]

\* the statistics getPrayerStats computes from the prayers and the streak
\* record it obtained
computedStats(prayers, streakRecord) ==
    LET prayersWithDuration ==
            {p \in prayers : "duration_minutes" \in DOMAIN p /\ p.duration_minutes # 0}
        weeklyStats ==
            [i \in 1..7 |->
                [date |-> Weekdays[i],
                 completed |-> Cardinality({p.prayer_name :
                                    p \in {q \in prayers : q.logged_at = daysInWeek[i]}}),
                 total |-> 5]]
        completeDays == Cardinality({i \in 1..7 : weeklyStats[i].completed = 5})
    IN  [totalPrayers |-> Cardinality(prayers),
         currentStreak |-> streakRecord.current_streak,
         longestStreak |-> streakRecord.longest_streak,
         averageDuration |->
            IF prayersWithDuration # {}
            THEN Round(SumDuration(prayersWithDuration), Cardinality(prayersWithDuration))
            ELSE 0,
         completionRate |-> Round(completeDays * 100, 7),
         weeklyStats |-> weeklyStats]

\* the default statistics of the catch block of getPrayerStats
defaultStats ==
    [totalPrayers |-> 0, currentStreak |-> 0, longestStreak |-> 0,
     averageDuration |-> 0, completionRate |-> 0,
     weeklyStats |-> [i \in 1..7 |-> [date |-> Weekdays[i], completed |-> 0, total |-> 5]]]

\* PrayerService.getPrayerStats().  av says which collaborator calls
\* answer: auth (blink.auth.me of getPrayerStats, awaited before the try),
\* historyAuth (blink.auth.me of getPrayerHistoryByDays, inside the try),
\* list (blink.db.prayers.list), streak (list and create of
\* blink.db.prayer_streaks).  Promise.all starts both reads, so the streak
\* record is obtained, and created when absent, even when the history
\* rejects.
getPrayerStats(db, ls, dbS, lsS, av) ==
    IF ~av.auth
    THEN [outcome |-> "rejected", dbS |-> dbS, lsS |-> lsS]
    ELSE LET s == getOrCreateStreak(dbS, lsS, av.streak, av.streak)
         IN  [outcome |-> "returned",
              threw |-> ~av.historyAuth,
              stats |-> IF av.historyAuth
                        THEN computedStats(getPrayerHistoryByDays(db, ls, av.list, 30),
                                           s.streak)
                        ELSE defaultStats,
              dbS |-> s.dbS, lsS |-> s.lsS]

StatsAvail == [auth : BOOLEAN, historyAuth : BOOLEAN, list : BOOLEAN,
               streak : BOOLEAN]

\* StatsDashboard.loadStats calls getPrayerStats
GetPrayerStats(av) ==
    /\ impl = "stats"
    /\ LET r == getPrayerStats(dbPrayers, lsPrayers, dbStreaks, lsStreak, av)
       IN  /\ dbStreaks' = r.dbS
           /\ lsStreak' = r.lsS
           /\ lastResult' =
                IF r.outcome = "rejected"
                THEN [op |-> "getPrayerStats", outcome |-> "rejected"]
                ELSE [op |-> "getPrayerStats", outcome |-> "returned",
                      threw |-> r.threw, stats |-> r.stats]
    /\ UNCHANGED <<impl, timerVars, notifyVars, clockVars, hookVars, sawOwnLog,
                   dbPrayers, lsPrayers, fails, fallbackUsed, mixed,
                   storedReminders, statsInput>>

\* {streak?.field || 0} of the dashboard: a field the record lacks reads
\* as undefined and shows as 0
shownField(record, field) ==
    IF field \in DOMAIN record THEN record[field] ELSE 0

\* the streak record that the catch block of loadDashboardData sets
DashboardDefaultStreak ==
    [current_streak |-> 0, longest_streak |-> 0, total_prayers |-> 0]

\* PrayerDashboard.loadDashboardData: the streak state after it and the
\* three numbers the page shows from it.  getTodaysPrayers, getPrayerHistory
\* and getStreak each await blink.auth.me before their try; when it
\* rejects, the catch block sets the default record.
loadDashboardData(dbS, lsS, av) ==
    LET s == getOrCreateStreak(dbS, lsS, av.streak, av.streak)
        state == IF av.auth THEN s.streak ELSE DashboardDefaultStreak
    IN  [getStreak |-> IF av.auth THEN <<s.streak>> ELSE <<>>,
         streak |-> state,
         dayStreak |-> shownField(state, "currentStreak"),
         bestStreak |-> shownField(state, "longestStreak"),
         totalPrayers |-> shownField(state, "totalPrayers"),
         dbS |-> IF av.auth THEN s.dbS ELSE dbS,
         lsS |-> IF av.auth THEN s.lsS ELSE lsS]

LoadDashboardData(av) ==
    /\ impl = "stats"
    /\ LET r == loadDashboardData(dbStreaks, lsStreak, av)
       IN  /\ dbStreaks' = r.dbS
           /\ lsStreak' = r.lsS
           /\ lastResult' = [op |-> "loadDashboardData", getStreak |-> r.getStreak,
                             streak |-> r.streak, dayStreak |-> r.dayStreak,
                             bestStreak |-> r.bestStreak,
                             totalPrayers |-> r.totalPrayers]
    /\ UNCHANGED <<impl, timerVars, notifyVars, clockVars, hookVars, sawOwnLog,
                   dbPrayers, lsPrayers, fails, fallbackUsed, mixed,
                   storedReminders, statsInput>>

\* a timed Fajr of today, logged beside the plain one
TimedFajr ==
    [prayer_name |-> "Fajr", logged_at |-> MaxStatsDay, id |-> 2,
     start_time |-> 0, end_time |-> 12, duration_minutes |-> durationMinutes(12)]

\* the statistics are asked for on day MaxStatsDay, any day of the week.
\* Earlier sessions completed a run P of days, all of them with blink.db up
\* or all of them with blink.db down, and may have left a timed Fajr today.
InitStats ==
    /\ impl = "stats"
    /\ today = MaxStatsDay
    /\ dst = "normal"
    /\ dstShift = FALSE
    /\ fails = 0
    /\ mixed = FALSE
    /\ prayerLogs = {}
    /\ streak = HookDefaultStreak
    /\ sawOwnLog = TRUE
    /\ minute = 0
    /\ weekday \in {Weekdays[i] : i \in DOMAIN Weekdays}
    /\ dayLen = 24
    /\ resetDue = <<0, 0>>
    /\ reminders = <<>>
    /\ notifiedToday = {}
    /\ permission = "default"
    /\ edits = 0
    /\ shownToday = {}
    /\ shownTwice = FALSE
    /\ everThrew = FALSE
    /\ lastCheck = [op |-> "none"]
    /\ TimerRests
    /\ MoreRests
    /\ \E P \in {a..b : a, b \in 1..MaxStatsDay}, timed \in SUBSET {TimedFajr} :
        LET rows == PastPrayers(P) \cup timed
            record == IF P = {} THEN <<>> ELSE <<PastStreak(P, MaxStatsDay)>>
        IN  \/ /\ fallbackUsed = FALSE
               /\ dbPrayers = rows /\ lsPrayers = {}
               /\ dbStreaks = record /\ lsStreak = <<>>
            \/ /\ fallbackUsed = TRUE
               /\ dbPrayers = {} /\ lsPrayers = rows
               /\ dbStreaks = <<>> /\ lsStreak = record

NextStats ==
    \/ \E av \in StatsAvail : GetPrayerStats(av)
    \/ \E av \in [auth : BOOLEAN, streak : BOOLEAN] : LoadDashboardData(av)

SpecStats == InitStats /\ [][NextStats]_vars

\* ----------------------------------------------------- monthly statistics
\* days of the month before the current one
DaysOfLastMonth == 31

\* new Date(now.getFullYear(), now.getMonth() - 1, now.getDate()): the same
\* day of the month before (a day that month has)
monthAgo == today - DaysOfLastMonth

\* the keys of prayerCounts in the order of Object.entries: each name at
\* the place of its first log
RECURSIVE countedNames(_)
countedNames(names) ==
    IF names = <<>> THEN <<>>
    ELSE LET before == countedNames(SubSeq(names, 1, Len(names) - 1))
             name == names[Len(names)]
         IN  IF \E i \in DOMAIN before : before[i] = name
             THEN before ELSE Append(before, name)

\* prayerCounts[name]
prayerCount(names, name) == Cardinality({i \in DOMAIN names : names[i] = name})

\* the reducer keeps the earlier entry on equal counts as well
keepsEarlier_OnTies(countA, countB) == countA >= countB

\* prayerCounts[a[0]] > prayerCounts[b[0]] ? a : b
keepsEarlier(countA, countB) == countA > countB

\* entries.reduce((a, b) => ...) without an initial value, from its
\* second entry on
RECURSIVE reduceEntries(_, _, _)
reduceEntries(a, entries, names) ==
    IF entries = <<>> THEN a
    ELSE reduceEntries(IF keepsEarlier(prayerCount(names, a),
                                       prayerCount(names, Head(entries)))
                       THEN a ELSE Head(entries),
                       Tail(entries), names)

\* usePrayerData.getMostPrayedTime(logs): reduce of an empty array without
\* an initial value throws a TypeError
getMostPrayedTime(logs) ==
    LET names == [i \in DOMAIN logs |-> logs[i].prayerName]
        entries == countedNames(names)
    IN  IF entries = <<>> THEN [threw |-> TRUE]
        ELSE [threw |-> FALSE,
              value |-> reduceEntries(Head(entries), Tail(entries), names)]

RECURSIVE totalDuration(_)
totalDuration(logs) ==
    IF logs = <<>> THEN 0
    ELSE Head(logs).durationMinutes + totalDuration(Tail(logs))

\* prayerLogs.filter(log => new Date(log.loggedAt) >= monthAgo)
monthlyLogs(logs) ==
    LET inWindow(log) == log.loggedAt >= monthAgo
    IN  SelectSeq(logs, inWindow)

\* usePrayerData.getMonthlyStats(); averagePerDay is kept as the fraction
\* monthlyLogs.length / 30
getMonthlyStats(logs) ==
    IF getMostPrayedTime(monthlyLogs(logs)).threw
    THEN [outcome |-> "threw"]
    ELSE [outcome |-> "returned",
          totalPrayers |-> Len(monthlyLogs(logs)),
          averagePerDay |-> <<Len(monthlyLogs(logs)), 30>>,
          mostPrayedTime |-> getMostPrayedTime(monthlyLogs(logs)).value,
          totalDuration |-> totalDuration(monthlyLogs(logs))]

GetMonthlyStats ==
    /\ impl = "monthly"
    /\ lastResult' = [op |-> "getMonthlyStats"] @@ getMonthlyStats(statsInput)
    /\ UNCHANGED <<impl, timerVars, notifyVars, clockVars, serviceVars, hookVars,
                   sawOwnLog, storedReminders, statsInput>>

\* usePrayerData.getMostPrayedTime on the whole array
GetMostPrayedTime ==
    /\ impl = "monthly"
    /\ lastResult' = [op |-> "getMostPrayedTime"] @@ getMostPrayedTime(statsInput)
    /\ UNCHANGED <<impl, timerVars, notifyVars, clockVars, serviceVars, hookVars,
                   sawOwnLog, storedReminders, statsInput>>

\* the logs an array is drawn from: of three prayers, logged before the
\* window, on its first day or today, untimed (durationMinutes undefined,
\* counted as 0) or, for Fajr, timed
MonthlyLogs ==
    [prayerName : {"Fajr", "Dhuhr", "Asr"},
     loggedAt : {monthAgo - 1, monthAgo, today},
     durationMinutes : {0}]
    \cup [prayerName : {"Fajr"},
          loggedAt : {monthAgo - 1, monthAgo, today},
          durationMinutes : {5}]

RECURSIVE SeqsUpTo(_, _)
SeqsUpTo(S, n) ==
    IF n = 0 THEN {<<>>}
    ELSE SeqsUpTo(S, n - 1)
            \cup {Append(q, x) : q \in {r \in SeqsUpTo(S, n - 1) : Len(r) = n - 1}, x \in S}

\* the hook holds an array of logs, drawn from MonthlyLogs in any order
InitMonthly ==
    /\ impl = "monthly"
    /\ today = MaxStatsDay
    /\ dstShift = FALSE
    /\ StreakRests
    /\ NotifyRests
    /\ TimerRests
    /\ storedReminders = <<>>
    /\ lastResult = [op |-> "none"]
    /\ statsInput \in SeqsUpTo(MonthlyLogs, MaxMonthlyLogs)

NextMonthly ==
    \/ GetMonthlyStats
    \/ GetMostPrayedTime

SpecMonthly == InitMonthly /\ [][NextMonthly]_vars

\* ------------------------------------------------------------- properties
\* the persisted streak fields; a record not created yet reads as the default
DbView ==
    IF Len(dbStreaks) > 0
    THEN <<dbStreaks[1].current_streak, dbStreaks[1].longest_streak,
           dbStreaks[1].last_prayer_date>>
    ELSE <<0, 0, NoDate>>

LsView ==
    IF Len(lsStreak) > 0
    THEN <<lsStreak[1].current_streak, lsStreak[1].longest_streak,
           lsStreak[1].last_prayer_date>>
    ELSE <<0, 0, NoDate>>

HookView == <<streak.currentStreak, streak.longestStreak, streak.lastPrayerDate>>

StreakViews == <<DbView, LsView, HookView>>

\* what the user logged, whichever store holds it
Logged ==
    {<<p.prayer_name, p.logged_at>> : p \in AllPrayers}
        \cup {<<l.prayerName, l.loggedAt>> : l \in prayerLogs}

DistinctOn(d) == {n \in PrayerNames : <<n, d>> \in Logged}

IsLogStep == AllPrayers' # AllPrayers \/ prayerLogs' # prayerLogs

\* the streak record of the implementation in use
ImplView == IF impl = "hook" THEN HookView ELSE DbView

\* C1: in every streak record (collaborator row, fallback record, hook state)
\* the longest streak is at least the current streak
C1_LongestAtLeastCurrent ==
    /\ DbView[2] >= DbView[1]
    /\ LsView[2] >= LsView[1]
    /\ HookView[2] >= HookView[1]

\* a streak update of this session wrote a record whose longest streak
\* exceeds its current streak
C1_Witness ==
    /\ DbView[3] >= FirstDay
    /\ DbView[2] > DbView[1]
    /\ DbView[1] >= 1

\* C2: once today's five prayers are logged and a streak record carries
\* today's date, a further log on that day leaves the current streak of every
\* record unchanged (stated for the steps in which the collaborator answers
\* every call, as it has done so far)
C2_AtMostOneAdvancePerDay ==
    [][(/\ IsLogStep
        /\ ~fallbackUsed'
        /\ DistinctOn(today) = PrayerNames
        /\ \/ DbView[3] = today
           \/ LsView[3] = today
           \/ HookView[3] = today)
       => /\ DbView'[1] = DbView[1]
          /\ LsView'[1] = LsView[1]
          /\ HookView'[1] = HookView[1]]_vars

\* C3: a log that completes today's five prayers while the streak record
\* carries yesterday's date sets current = old current + 1 and
\* longest = max(old longest, new current)
\* (stated for the steps in which the collaborator answers every call, as it
\* has done so far)
C3_Continuity ==
    [][(/\ IsLogStep
        /\ ~fallbackUsed'
        /\ DistinctOn(today)' = PrayerNames
        /\ ImplView[3] = today - 1)
       => /\ ImplView'[1] = ImplView[1] + 1
          /\ ImplView'[2] = Max(ImplView[2], ImplView'[1])]_vars

\* C4: a log that completes today's five prayers while the streak record
\* carries a date two or more days back sets current = 1 and
\* longest = max(old longest, 1)
\* (stated for the steps in which the collaborator answers every call, as it
\* has done so far)
C4_Reset ==
    [][(/\ IsLogStep
        /\ ~fallbackUsed'
        /\ DistinctOn(today)' = PrayerNames
        /\ ImplView[3] # NoDate
        /\ ImplView[3] <= today - 2)
       => /\ ImplView'[1] = 1
          /\ ImplView'[2] = Max(ImplView[2], 1)]_vars

\* C5: when the user's whole log is the five prayers of today, once each,
\* getStreak returns current 1, longest 1, total 5 and today's progress is 100
C5_FirstCompleteDay ==
    (impl = "service"
     /\ AllPrayers = {[prayer_name |-> n, logged_at |-> today, id |-> 1] : n \in PrayerNames})
        => \A okList \in BOOLEAN, okCreate \in BOOLEAN, okToday \in BOOLEAN :
            LET s == getOrCreateStreak(dbStreaks, lsStreak, okList, okCreate).streak IN
            /\ s.current_streak = 1
            /\ s.longest_streak = 1
            /\ s.total_prayers = 5
            /\ getTodaysProgress(getTodaysPrayers(dbPrayers, lsPrayers, okToday)) = 100

\* C6: a log step after which today has fewer than five distinct prayers
\* leaves current streak, longest streak and last prayer date of every record
\* unchanged
C6_PartialDayKeepsStreak ==
    [][(IsLogStep /\ Cardinality(DistinctOn(today)') < 5)
       => StreakViews' = StreakViews]_vars

\* four of today's prayers are logged, next to a streak record that already
\* counts earlier days
C6_Witness ==
    /\ Cardinality(DistinctOn(today)) = 4
    /\ ImplView[1] >= 1
    /\ ImplView[3] < today

\* the number of consecutive days, ending with the most recent completed
\* day, on each of which all five prayers were logged
RECURSIVE RunEndingOn(_)
RunEndingOn(d) ==
    IF d < 1 \/ DistinctOn(d) # PrayerNames THEN 0 ELSE 1 + RunEndingOn(d - 1)

ConsecutiveCompleteDays ==
    LET done == {d \in 1..MaxDay : DistinctOn(d) = PrayerNames}
    IN  IF done = {} THEN 0
        ELSE RunEndingOn(CHOOSE d \in done : \A e \in done : e <= d)

\* C7: the current streak is the number of consecutive completed days ending
\* with the most recent completed day (stated for the hook's record and, in
\* the sessions in which the collaborator has answered every call, for the
\* collaborator's row)
C7_StreakCountsConsecutiveDays ==
    /\ impl = "hook" => HookView[1] = ConsecutiveCompleteDays
    /\ (impl = "service" /\ ~fallbackUsed) => DbView[1] = ConsecutiveCompleteDays

\* C8: no persistence call is served by the collaborator after a call of the
\* session has been served by the fallback store
C8_NeverMixed == ~mixed

\* C9: the record a log step stored is in the list getPrayerHistory returns
\* after it, whether or not the collaborator answers that call
C9_RoundTrip ==
    [][IsLogStep
       => /\ \A ok \in BOOLEAN :
                (AllPrayers' \ AllPrayers)
                    \subseteq getPrayerHistory(dbPrayers', lsPrayers', ok, HistoryLimit)
          /\ (prayerLogs' \ prayerLogs) \subseteq prayerLogs']_vars

\* the streak records with today's date that this step stored
WrittenToday ==
    LET stored(dbS, lsS) == {dbS[i] : i \in DOMAIN dbS} \cup {lsS[i] : i \in DOMAIN lsS}
    IN  {r \in stored(dbStreaks', lsStreak') : r.last_prayer_date = today}
            \ stored(dbStreaks, lsStreak)

\* C28: when a log step has stored an updated streak record for today, the
\* next getStreak returns that record, whether or not the collaborator
\* answers its calls
C28_AdvanceNotLost ==
    [][(impl = "service" /\ IsLogStep /\ WrittenToday # {})
        => \A okList, okCreate \in BOOLEAN :
            getOrCreateStreak(dbStreaks', lsStreak', okList, okCreate).streak
                \in WrittenToday]_vars

\* ------------------------------------------------------ properties: timer
TimerPhase ==
    IF ~isRunning THEN "idle" ELSE IF isPaused THEN "paused" ELSE "running"

\* C17: the timer goes from idle to running with the start time taken,
\* between running and paused with the start time kept, and from running or
\* paused back to idle only by a completion (onComplete called) or by the
\* dialog closing; it is paused only while running, and it holds a start
\* time exactly while running
C17_TimerTransitions ==
    /\ [](isPaused => isRunning)
    /\ []((startTime # NoTime) <=> isRunning)
    /\ [][\/ TimerPhase' = TimerPhase /\ startTime' = startTime
          \/ TimerPhase = "idle" /\ TimerPhase' = "running" /\ startTime' = now
          \/ TimerPhase = "running" /\ TimerPhase' = "paused" /\ startTime' = startTime
          \/ TimerPhase = "paused" /\ TimerPhase' = "running" /\ startTime' = startTime
          \/ /\ TimerPhase \in {"running", "paused"}
             /\ TimerPhase' = "idle"
             /\ \/ timerOp'.onComplete = timerOp.onComplete + 1
                \/ ~showTimer'
         ]_vars

\* a second timing is paused after a first one was completed
C17_Witness == isRunning /\ isPaused /\ startTime < now /\ AllPrayers # {}

\* C18: the store changes only in a step that takes a running timer with a
\* start time to idle and calls onComplete, and then by one row with that
\* start time and the time of the press; a step that closes the dialog
\* neither calls onComplete nor changes the store; onComplete is called at
\* most once per press of Start
C18_LogOnlyOnComplete ==
    [][/\ (AllPrayers' # AllPrayers \/ timerOp'.onComplete > timerOp.onComplete) =>
            /\ isRunning /\ startTime # NoTime /\ ~isRunning'
            /\ timerOp'.onComplete = timerOp.onComplete + 1
            /\ \E p \in AllPrayers' \ AllPrayers :
                /\ AllPrayers' = AllPrayers \cup {p}
                /\ p.prayer_name = selectedPrayer
                /\ p.start_time = startTime
                /\ p.end_time = now
       /\ (showTimer /\ ~showTimer') =>
            /\ AllPrayers' = AllPrayers
            /\ timerOp'.onComplete = timerOp.onComplete
       /\ timerOp'.onComplete <= 1
      ]_vars

\* a timing was completed and the dialog then cancelled while
\* handleTimerComplete had not returned
C18_Witness ==
    /\ timerOp.onComplete = 1
    /\ ~showTimer
    /\ selectedPrayer = ""
    /\ pending = 1
    /\ Cardinality(AllPrayers) = 1

\* C19: every stored row with duration_minutes has
\* duration_minutes = round((end_time - start_time) / 1 minute)
C19_DurationFromTimes ==
    \A p \in AllPrayers :
        "duration_minutes" \in DOMAIN p =>
            p.duration_minutes = durationMinutes(p.end_time - p.start_time)

\* C20: no persistence operation rejects
C20_NoRejection == ~timerOp.rejected

\* ------------------------------------------------ properties: notifications
\* a step that runs checkReminders
HookCheckStep ==
    /\ impl = "notify"
    /\ \/ lastCheck' # lastCheck
       \/ reminders' # reminders
       \/ notifiedToday' # notifiedToday /\ resetDue' = resetDue

ServiceCheckStep ==
    /\ impl = "reminders"
    /\ lastCheck' # lastCheck
    /\ lastCheck'.op = "checkForDueReminders"

\* Monday = 1 ... Sunday = 7
IsoDay(wd) ==
    CASE wd = "Mon" -> 1 [] wd = "Tue" -> 2 [] wd = "Wed" -> 3 [] wd = "Thu" -> 4
      [] wd = "Fri" -> 5 [] wd = "Sat" -> 6 [] wd = "Sun" -> 7

\* the days a reminder row names
DaySet(row) ==
    {n \in 1..7 : \E i \in DOMAIN row.days_of_week : row.days_of_week[i] = Digits[n + 1]}

\* showNotification was called for the i-th reminder in the check of this step
Fired(i) == \E j \in DOMAIN lastCheck'.shown : lastCheck'.shown[j].index = i

\* the i-th reminder is enabled and set to the current minute
HookDue(i) == reminders'[i].isEnabled /\ reminders'[i].reminderTime = HHmm(minute)

\* C11: a due-check selects exactly the reminders that are enabled, whose
\* days contain today (Monday = 1 ... Sunday = 7) and whose time is the
\* current minute: checkForDueReminders returns exactly those rows, and
\* checkReminders (whose reminders have no days) fires exactly the enabled
\* reminders of the current minute not yet notified
C11_DueCheckExact ==
    [][/\ ServiceCheckStep =>
            LET claimed(row) == /\ row.is_enabled = "1"
                                /\ IsoDay(weekday) \in DaySet(row)
                                /\ row.reminder_time = HHmm(minute)
            IN  lastCheck'.due = SelectSeq(reminders, claimed)
       /\ HookCheckStep =>
            \A i \in DOMAIN reminders' :
                Fired(i) <=> /\ HookDue(i)
                             /\ reminderKey(reminders'[i], HHmm(minute)) \notin notifiedToday
      ]_vars

\* C12: a check of an enabled reminder set to the current minute fires it
\* once and records its key when the key is not in notifiedToday, and fires
\* nothing for it when the key is there
C12_DedupSameMinute ==
    [][HookCheckStep =>
        \A i \in DOMAIN reminders' :
            HookDue(i) =>
                LET key == reminderKey(reminders'[i], HHmm(minute))
                    n == Cardinality({j \in DOMAIN lastCheck'.shown :
                                        lastCheck'.shown[j].key = key})
                IN  /\ key \in notifiedToday'
                    /\ n = IF key \in notifiedToday THEN 0 ELSE 1
      ]_vars

\* C13: no (prayer name, time) pair is shown twice on one channel on one
\* calendar day (stated for the sessions in which no channel has thrown)
C13_OncePerDay == ~everThrew => ~shownTwice

\* C14: past the minute of midnight, notifiedToday holds only keys notified
\* on the current calendar day
C14_ClearedAtMidnight ==
    (impl = "notify" /\ minute # 0)
        => \A key \in notifiedToday : <<key, "toast">> \in shownToday

\* C15: in a dispatch, the toast is shown when only the system channel throws
\* and the system notification is shown when only the toast throws
C15_ChannelsIndependent ==
    lastCheck.op = "checkReminders" =>
        \A j \in DOMAIN lastCheck.shown :
            LET n == lastCheck.shown[j] IN
            /\ (n.granted /\ n.sysThrows /\ ~n.toastThrows) => n.toast
            /\ (n.granted /\ n.toastThrows /\ ~n.sysThrows) => n.system

\* C16: a system notification is shown only with the permission granted;
\* without it a dispatch shows the toast (the toast channel working), shows
\* no system notification and raises no error
C16_PermissionGate ==
    /\ lastCheck.op = "checkReminders" =>
        \A j \in DOMAIN lastCheck.shown :
            LET n == lastCheck.shown[j] IN
            /\ n.system => n.granted
            /\ (~n.granted /\ ~n.toastThrows) => (n.toast /\ ~n.system /\ ~lastCheck.threw)
    /\ lastCheck.op = "showNotification" =>
        /\ lastCheck.shown.system => permission = "granted"
        /\ ~lastCheck.shown.threw

\* C10: the prayers of today that the streak update of a logPrayer call
\* examined contain the log that call wrote
C10_StreakSeesOwnWrite == sawOwnLog

\* ------------------------------------------- properties: reminder settings
\* C21: an update whose id matches no reminder never reports success (and
\* leaves the stored reminders as they were)
C21_UnknownIdFails ==
    [][(/\ lastResult'.op = "updateReminder"
        /\ \A i \in DOMAIN reminders : reminders[i].id # lastResult'.id
        /\ \A j \in DOMAIN storedReminders :
                storedReminders[j].id # lastResult'.id)
        => /\ lastResult'.outcome \notin {"success", "returned"}
           /\ storedReminders' = storedReminders]_vars

\* the ids and prayer names of a reminder list, in its order
Identity(list) == [i \in DOMAIN list |-> <<list[i].id, list[i].prayerName>>]

\* C25: after seeding and after any sequence of edits on the settings page
\* the reminder list, in the hook state and in localStorage, holds exactly
\* five reminders, one for each of Fajr, Dhuhr, Asr, Maghrib, Isha, with the
\* ids and names it was seeded with
C25_FiveReminders ==
    impl = "settings" =>
        /\ Identity(reminders) = [i \in 1..5 |-> <<defaultReminders[i].id, DAILY_PRAYERS[i]>>]
        /\ Identity(storedReminders) = Identity(reminders)

\* a quick action after a time change and a switch: one reminder carries
\* the typed time, one is disabled
C25_Witness ==
    /\ impl = "settings"
    /\ lastResult.op \in {"enableAll", "disableAll", "resetTimes"}
    /\ \E i \in DOMAIN reminders : reminders[i].reminderTime = TypedTime
    /\ \E i \in DOMAIN reminders : ~reminders[i].isEnabled
    /\ Len(reminders) = 5

\* C27: after Enable All every reminder of the hook state and of the stored
\* list is enabled, after Disable All every one is disabled, after Reset
\* Times every one has the default time of its prayer
C27_QuickActionsReachAll ==
    [][(impl = "settings" /\ lastResult'.outcome = "success")
        => \A l \in {reminders', storedReminders'} : \A i \in DOMAIN l :
            /\ lastResult'.op = "enableAll" => l[i].isEnabled
            /\ lastResult'.op = "disableAll" => ~l[i].isEnabled
            /\ lastResult'.op = "resetTimes"
                    => l[i].reminderTime = PRAYER_TIMES[l[i].prayerName]]_vars

\* ------------------------------------------------- properties: statistics
\* C22: getPrayerStats never fails; whenever something throws it returns
\* the default statistics: all numbers 0 and seven weekly entries, each
\* with completed = 0 and total = 5
C22_StatsNeverFail ==
    lastResult.op = "getPrayerStats" =>
        /\ lastResult.outcome = "returned"
        /\ lastResult.threw => lastResult.stats = defaultStats

\* the days of the week that ends today on which all five prayers are
\* among the given rows
TrailingComplete(rows) ==
    {d \in (today - 6)..today :
        {p.prayer_name : p \in {q \in rows : q.logged_at = d}} = PrayerNames}

\* C24: the completion rate is the number of days of the trailing week on
\* which all five distinct prayers were logged, divided by 7, times 100,
\* rounded; it lies in 0..100
C24_CompletionRate ==
    (lastResult.op = "getPrayerStats" /\ lastResult.outcome = "returned"
        /\ ~lastResult.threw)
    => /\ lastResult.stats.completionRate \in 0..100
       /\ \/ lastResult.stats.completionRate
                = Round(Cardinality(TrailingComplete(dbPrayers)) * 100, 7)
          \/ lastResult.stats.completionRate
                = Round(Cardinality(TrailingComplete(lsPrayers)) * 100, 7)

\* C29: after loadDashboardData the page shows, as Day Streak, Best Streak
\* and Total Prayers, the current_streak, longest_streak and total_prayers
\* of the record getStreak returned
C29_DashboardShowsStreak ==
    (lastResult.op = "loadDashboardData" /\ lastResult.getStreak # <<>>)
    => /\ lastResult.dayStreak = lastResult.getStreak[1].current_streak
       /\ lastResult.bestStreak = lastResult.getStreak[1].longest_streak
       /\ lastResult.totalPrayers = lastResult.getStreak[1].total_prayers

\* ------------------------------------------ properties: monthly statistics
\* the names of the logs of the window, in the order of the array
WindowNames == [i \in DOMAIN monthlyLogs(statsInput) |->
                    monthlyLogs(statsInput)[i].prayerName]

\* the names with the largest count among the logs of the window
MostCounted ==
    {n \in {WindowNames[i] : i \in DOMAIN WindowNames} :
        \A i \in DOMAIN WindowNames :
            prayerCount(WindowNames, n) >= prayerCount(WindowNames, WindowNames[i])}

\* the place of the first log of a name in the window
FirstAt(n) == CHOOSE i \in DOMAIN WindowNames :
                /\ WindowNames[i] = n
                /\ \A j \in 1..(i - 1) : WindowNames[j] # n

\* C23 as stated: for a non-empty window mostPrayedTime is a name with the
\* largest count and, among the names that share it, the one met first in
\* the log sequence
C23_FirstOfTied ==
    (lastResult.op = "getMonthlyStats" /\ WindowNames # <<>>)
    => /\ lastResult.outcome = "returned"
       /\ lastResult.mostPrayedTime \in MostCounted
       /\ \A n \in MostCounted : FirstAt(lastResult.mostPrayedTime) <= FirstAt(n)

\* C23 amended: for a non-empty window mostPrayedTime is a name with the
\* largest count and, among the names that share it, the one whose first
\* log comes last in the log sequence
C23_LastOfTied ==
    (lastResult.op = "getMonthlyStats" /\ WindowNames # <<>>)
    => /\ lastResult.outcome = "returned"
       /\ lastResult.mostPrayedTime \in MostCounted
       /\ \A n \in MostCounted : FirstAt(lastResult.mostPrayedTime) >= FirstAt(n)

\* the statistics of a window in which two names share the largest count,
\* the name returned not being that of the first log
C23_Witness ==
    /\ lastResult.op = "getMonthlyStats"
    /\ lastResult.outcome = "returned"
    /\ Cardinality(MostCounted) = 2
    /\ Cardinality({WindowNames[i] : i \in DOMAIN WindowNames}) >= 2
    /\ lastResult.mostPrayedTime # WindowNames[1]

\* C30: getMonthlyStats completes without throwing for every log list, the
\* empty one included; with no log in the window it returns totalPrayers
\* 0, totalDuration 0 and mostPrayedTime 'None'
C30_MonthlyNeverThrows ==
    lastResult.op = "getMonthlyStats" =>
        /\ lastResult.outcome = "returned"
        /\ WindowNames = <<>> =>
            /\ lastResult.totalPrayers = 0
            /\ lastResult.totalDuration = 0
            /\ lastResult.mostPrayedTime = "None"

\* ----------------------------------------------------- properties: polling
\* the enabled reminders whose time is the current minute
DueNow ==
    {i \in DOMAIN reminders :
        reminders[i].isEnabled /\ reminders[i].reminderTime = HHmm(minute)}

\* C26: while the hook polls, a due-check runs in every wall-clock minute,
\* so an enabled reminder whose time arrives is dispatched on that day:
\* once a check has run in the current minute, with no channel having
\* thrown, every enabled reminder of that minute has been shown today
C26_DueIsDispatched ==
    (/\ impl = "notify"
     /\ lastCheck.op = "checkReminders"
     /\ lastCheck.at = <<today, minute>>
     /\ ~everThrew)
    => \A i \in DueNow :
        \E channel \in {"system", "toast"} :
            <<reminderKey(reminders[i], HHmm(minute)), channel>> \in shownToday

====
